---- MODULE Spec2Model ----
(***************************************************************************)
(* State machine of the root App component (src/unnamed/part_002): its     *)
(* React state, the handlers bound to the rendered view, the two asynchronous*)
(* operations (loading a predefined door, generating the composite image), *)
(* the object-URL bookkeeping done by render and by the cleanup effects,   *)
(* and the touch-end coordinate mapping.                                   *)
(*                                                                         *)
(* One action is one handler together with the render and effects React    *)
(* runs for the state it set.  A nullable value is the empty sequence      *)
(* (null) or a one-element sequence.                                       *)
(***************************************************************************)
EXTENDS Integers, Sequences, FiniteSets

\* ------------------------------------------------------------------ bounds
\* handleDoorDrop invocations explored in one behaviour.
MaxDrops == 2

None == << >>
Some(v) == << v >>

\* Names URL.createObjectURL can hand out; a name is reused only after the URL
\* that carried it was revoked, so live URLs always have distinct names.
UrlNames == 1 .. 5

BlobUrl(n) == [scheme |-> "blob", n |-> n]
AssetUrl(k) == [scheme |-> "asset", n |-> k]

\* data/doors.ts: predefinedDoors, each with a static asset path.
predefinedDoors == { [id |-> 1, imageUrl |-> AssetUrl(1)] }

\* Files the user can pick as the door image / as the scene photo.
DoorUploadFiles == { [src |-> "doorUpload", n |-> 1] }
SceneUploadFiles == { [src |-> "sceneUpload", n |-> k] : k \in {1, 2} }

\* What the <img> reports as naturalWidth x naturalHeight for a scene file:
\* 0 x 0 while the image is not available (not decoded, or not decodable).
NaturalSize(file) ==
    IF file.src = "sceneUpload"
    THEN IF file.n = 1 THEN [w |-> 1, h |-> 1] ELSE [w |-> 0, h |-> 0]
    ELSE [w |-> 4, h |-> 1]

\* Bounding client rect of the scene drop zone, and the touch points tried.
ContainerRect == [left |-> 1, top |-> 1, width |-> 8, height |-> 4]
TouchPoints ==
    { [clientX |-> 0, clientY |-> 0], [clientX |-> 1, clientY |-> 1],
      [clientX |-> 7, clientY |-> 4] }

VARIABLES
    mounted,               \* the App component is mounted
    selectedDoor,          \* useState<Door | null>
    doorImageFile,         \* useState<File | null>
    sceneImage,            \* useState<File | null>
    isLoading,             \* useState<boolean>
    error,                 \* useState<string | null>
    persistedOrbPosition,  \* useState<{x, y} | null>
    debugImageUrl,         \* useState<string | null>
    debugPrompt,           \* useState<string | null>
    isTouchDragging,       \* useState<boolean>
    view,                  \* what renderContent returned at the last render
    sceneImageUrl,         \* the const computed by the last render
    liveUrls,              \* object URLs created and not yet revoked
    revokedAssets,         \* non-blob URLs passed to URL.revokeObjectURL
    requests,              \* generateCompositeImage calls in call order: pending, or the outcome
    lastCall,              \* arguments of the latest call, while it is pending
    doorFetches,           \* predefined doors whose fetch is pending
    nDrops,                \* invocations of handleDoorDrop
    nPlaced                \* invocations that passed its guard

state == << selectedDoor, doorImageFile, sceneImage, isLoading, error,
            persistedOrbPosition, debugImageUrl, debugPrompt, isTouchDragging >>
urls == << sceneImageUrl, liveUrls, revokedAssets >>
vars == << mounted, state, view, urls, requests, lastCall, doorFetches, nDrops, nPlaced >>


\* --------------------------------------------------- numbers (JS doubles)
\* A double is NaN or an exact fraction n/d in lowest terms with d > 0.  The
\* sizes and points of the model keep every intermediate value exactly
\* representable, so exact arithmetic gives what the doubles give.
RECURSIVE Gcd(_, _)
Gcd(a, b) == IF b = 0 THEN a ELSE Gcd(b, a % b)
Abs(a) == IF a < 0 THEN -a ELSE a
NaN == [nan |-> TRUE, n |-> 0, d |-> 1]
Frac(n, d) ==
    LET g == Gcd(Abs(n), Abs(d))
        s == IF d < 0 THEN -1 ELSE 1
    IN  [nan |-> FALSE, n |-> s * (n \div g), d |-> s * (d \div g)]
Num(k) == [nan |-> FALSE, n |-> k, d |-> 1]
\* a / b; 0 / 0 is NaN.  (A non-zero value over zero, an infinity, does not
\* arise: naturalWidth and naturalHeight are both zero or both positive.)
FDiv(a, b) ==
    IF a.nan \/ b.nan \/ b.n = 0 THEN NaN ELSE Frac(a.n * b.d, a.d * b.n)
FMul(a, b) == IF a.nan \/ b.nan THEN NaN ELSE Frac(a.n * b.n, a.d * b.d)
FSub(a, b) ==
    IF a.nan \/ b.nan THEN NaN ELSE Frac(a.n * b.d - b.n * a.d, a.d * b.d)
\* Every comparison with NaN is false.
FLt(a, b) == ~a.nan /\ ~b.nan /\ a.n * b.d < b.n * a.d
FGt(a, b) == FLt(b, a)
FLeq(a, b) == ~a.nan /\ ~b.nan /\ a.n * b.d <= b.n * a.d

\* ---------------------------------------------------------------- helpers
\* 'An unexpected error occurred. Please try again.'
UnexpectedError == [prefix |-> "An unexpected error occurred. Please try again.", detail |-> ""]
\* `Failed to generate the image. ${errorMessage}`
GenerateError(msg) == [prefix |-> "Failed to generate the image.", detail |-> msg]
\* `Could not load the selected door. Details: ${errorMessage}`
LoadDoorError(msg) == [prefix |-> "Could not load the selected door. Details:", detail |-> msg]

\* The data URLs the service can return as finalImageUrl: `parts` is the
\* length of dataurl.split(','), `mime` what /:(.*?);/ captures from the first
\* part ("nomatch" when the pattern does not match), `b64` whether atob
\* accepts the second part.
NoDataUrl == [parts |-> 0, mime |-> "nomatch", b64 |-> FALSE]
DataUrls ==
    { [parts |-> 2, mime |-> "image/jpeg", b64 |-> TRUE],
      [parts |-> 1, mime |-> "nomatch", b64 |-> FALSE],
      [parts |-> 2, mime |-> "", b64 |-> TRUE],
      [parts |-> 2, mime |-> "image/jpeg", b64 |-> FALSE] }

dataURLtoFile(dataurl, filename) ==
    IF dataurl.parts < 2
    THEN [ok |-> FALSE, message |-> "Invalid data URL", file |-> None]
    ELSE IF dataurl.mime = "nomatch" \/ dataurl.mime = ""
    THEN [ok |-> FALSE, message |-> "Could not parse MIME type from data URL", file |-> None]
    ELSE IF ~dataurl.b64
    THEN [ok |-> FALSE, message |-> "atob: invalid character", file |-> None]
    ELSE [ok |-> TRUE, message |-> "", file |-> Some([src |-> "generated", n |-> filename])]

\* const doorImageUrl = selectedDoor ? selectedDoor.imageUrl : null
doorImageUrl(door) == IF door = None THEN None ELSE Some(door[1].imageUrl)

StartsWithBlob(url) == url.scheme = "blob"

\* URL.createObjectURL: a name no live URL carries.
HasFresh(live) == \E n \in UrlNames : BlobUrl(n) \notin live
createObjectURL(live) ==
    BlobUrl(CHOOSE n \in UrlNames :
              /\ BlobUrl(n) \notin live
              /\ \A m \in UrlNames : BlobUrl(m) \notin live => n <= m)

\* Cleanup of the scene effect: the URLs it passes to URL.revokeObjectURL.
SceneCleanup(url) == IF url # None THEN { url[1] } ELSE {}

\* Faulty variant: the cleanup without the startsWith('blob:') test.
DoorCleanup_NoBlobCheck(url) == IF url # None THEN { url[1] } ELSE {}

\* Cleanup of the door effect.
DoorCleanup(url) ==
    IF url # None /\ StartsWithBlob(url[1]) THEN { url[1] } ELSE {}

\* Faulty variant: the door test ahead of the 'Loading door...' test.
renderContent_DoorFirst(err, loading, door, scene) ==
    IF err # None THEN "error"
    ELSE IF door = None THEN "state1"
    ELSE IF loading /\ scene = None THEN "loadingDoor"
    ELSE IF door # None /\ scene = None THEN "state2"
    ELSE "state3"

renderContent(err, loading, door, scene) ==
    IF err # None THEN "error"
    ELSE IF loading /\ scene = None THEN "loadingDoor"
    ELSE IF door = None THEN "state1"
    ELSE IF door # None /\ scene = None THEN "state2"
    ELSE "state3"

\* One render of App and the effects that follow it: `u` is the URL
\* bookkeeping before it, oldDoor/newDoor the door URL of the previous and of
\* this render, scene the sceneImage rendered.
RenderOnce(u, oldDoor, newDoor, scene) ==
    LET newUrl == IF scene # None THEN Some(createObjectURL(u.live)) ELSE None
        made == IF scene # None THEN { newUrl[1] } ELSE {}
        args == (IF u.sceneImageUrl # newUrl THEN SceneCleanup(u.sceneImageUrl) ELSE {})
                \cup (IF oldDoor # newDoor THEN DoorCleanup(oldDoor) ELSE {})
    IN  [sceneImageUrl |-> newUrl,
         live |-> (u.live \cup made) \ args,
         revokedAssets |-> u.revokedAssets \cup { a \in args : ~StartsWithBlob(a) }]

\* The re-render React does for the state a handler set, with the effect
\* cleanups it triggers.  `created` are the URLs the handler itself created.
Render(created) ==
    LET u0 == [sceneImageUrl |-> sceneImageUrl, live |-> liveUrls \cup created,
               revokedAssets |-> revokedAssets]
        u1 == RenderOnce(u0, doorImageUrl(selectedDoor), doorImageUrl(selectedDoor'), sceneImage')
    IN  /\ sceneImage' # None => HasFresh(liveUrls \cup created)
        /\ view' = renderContent(error', isLoading', selectedDoor', sceneImage')
        /\ sceneImageUrl' = u1.sceneImageUrl
        /\ liveUrls' = u1.live
        /\ revokedAssets' = u1.revokedAssets

\* --------------------------------------------------------- handleTouchEnd
\* The coordinate mapping of handleTouchEnd for a touch over the drop zone:
\* whether handleDoorDrop is called, and with what arguments.
TouchMapping(touch, containerRect, img) ==
    LET naturalWidth == Num(img.w)
        naturalHeight == Num(img.h)
        containerWidth == Num(containerRect.width)
        containerHeight == Num(containerRect.height)
        imageAspectRatio == FDiv(naturalWidth, naturalHeight)
        containerAspectRatio == FDiv(containerWidth, containerHeight)
        wider == FGt(imageAspectRatio, containerAspectRatio)
        renderedWidth == IF wider THEN containerWidth
                         ELSE FMul(containerHeight, imageAspectRatio)
        renderedHeight == IF wider THEN FDiv(containerWidth, imageAspectRatio)
                          ELSE containerHeight
        offsetX == FDiv(FSub(containerWidth, renderedWidth), Num(2))
        offsetY == FDiv(FSub(containerHeight, renderedHeight), Num(2))
        dropX == touch.clientX - containerRect.left
        dropY == touch.clientY - containerRect.top
        imageX == FSub(Num(dropX), offsetX)
        imageY == FSub(Num(dropY), offsetY)
    IN  [call |-> ~(\/ FLt(imageX, Num(0)) \/ FGt(imageX, renderedWidth)
                    \/ FLt(imageY, Num(0)) \/ FGt(imageY, renderedHeight)),
         position |-> [x |-> dropX, y |-> dropY],
         relativePosition |->
             [xPercent |-> FMul(FDiv(imageX, renderedWidth), Num(100)),
              yPercent |-> FMul(FDiv(imageY, renderedHeight), Num(100))]]

\* document.elementFromPoint(...).closest('[data-dropzone-id="scene-uploader"]'):
\* the uploader is in the document in STATE 2 and STATE 3, and the touch is
\* over it when the point is inside its bounding rect.
DropZoneAt(touch) ==
    /\ view \in {"state2", "state3"}
    /\ touch.clientX >= ContainerRect.left
    /\ touch.clientX <= ContainerRect.left + ContainerRect.width
    /\ touch.clientY >= ContainerRect.top
    /\ touch.clientY <= ContainerRect.top + ContainerRect.height

\* sceneImgRef.current: the ref is handed to the uploader in STATE 3 only.
SceneImgRefSet == view = "state3"

\* ----------------------------------------------------------- handleDoorDrop
\* Faulty variant: the service called twice for one placement.
generateCompositeImage_Twice(calls) == Append(Append(calls, "pending"), "pending")

\* The call of generateCompositeImage: one more request in flight.
generateCompositeImage(calls) == Append(calls, "pending")

\* Faulty variant: setIsLoading(true) ahead of the guard.
HandleDoorDrop_LoadingBeforeGuard(position, relativePosition, via) ==
    /\ nDrops' = nDrops + 1
    /\ isLoading' = TRUE
    /\ IF doorImageFile = None \/ sceneImage = None \/ selectedDoor = None
       THEN /\ error' = Some(UnexpectedError)
            /\ UNCHANGED << persistedOrbPosition, requests, lastCall, nPlaced >>
       ELSE /\ nPlaced' = nPlaced + 1
            /\ persistedOrbPosition' = Some(position)
            /\ error' = None
            /\ requests' = generateCompositeImage(requests)
            /\ lastCall' = Some([position |-> position,
                                 relativePosition |-> relativePosition, via |-> via])
    /\ UNCHANGED << selectedDoor, doorImageFile, sceneImage, debugImageUrl, debugPrompt >>

\* The synchronous part of handleDoorDrop, up to the await: the guard, the
\* three sets and the generateCompositeImage call.
HandleDoorDrop(position, relativePosition, via) ==
    /\ nDrops' = nDrops + 1
    /\ IF doorImageFile = None \/ sceneImage = None \/ selectedDoor = None
       THEN /\ error' = Some(UnexpectedError)
            /\ UNCHANGED << persistedOrbPosition, isLoading, requests, lastCall, nPlaced >>
       ELSE /\ nPlaced' = nPlaced + 1
            /\ persistedOrbPosition' = Some(position)
            /\ isLoading' = TRUE
            /\ error' = None
            /\ requests' = generateCompositeImage(requests)
            /\ lastCall' = Some([position |-> position,
                                 relativePosition |-> relativePosition, via |-> via])
    /\ UNCHANGED << selectedDoor, doorImageFile, sceneImage, debugImageUrl,
                    debugPrompt >>

\* What the service returns as debugImageUrl and finalPrompt for call i.
DebugImageOf(i) == [debugImage |-> i]
PromptOf(i) == [prompt |-> i]

\* Variant that converts the final image before storing the debug fields.
HandleDoorDropResume_ConvertFirst(i, status, dataurl) ==
    LET conv == dataURLtoFile(dataurl, i)
    IN  /\ requests[i] = "pending"
        /\ requests' = [requests EXCEPT ![i] =
                            IF status = "rejected" THEN "rejected"
                            ELSE IF conv.ok THEN "converted" ELSE "unconverted"]
        /\ IF status = "rejected"
           THEN /\ error' = Some(GenerateError("rejected"))
                /\ UNCHANGED << debugImageUrl, debugPrompt, sceneImage >>
           ELSE IF conv.ok
                THEN /\ debugImageUrl' = Some(DebugImageOf(i))
                     /\ debugPrompt' = Some(PromptOf(i))
                     /\ sceneImage' = conv.file /\ UNCHANGED error
                ELSE /\ error' = Some(GenerateError(conv.message))
                     /\ UNCHANGED << debugImageUrl, debugPrompt, sceneImage >>
        /\ isLoading' = FALSE
        /\ persistedOrbPosition' = None
        /\ lastCall' = IF i = Len(requests) THEN None ELSE lastCall
        /\ UNCHANGED << selectedDoor, doorImageFile, isTouchDragging, nDrops, nPlaced >>

\* handleDoorDrop after the await, for call i: `status` is "rejected" or
\* "resolved", and dataurl the finalImageUrl of a resolved call.
HandleDoorDropResume(i, status, dataurl) ==
    LET conv == dataURLtoFile(dataurl, i)
    IN  /\ requests[i] = "pending"
        /\ requests' = [requests EXCEPT ![i] =
                            IF status = "rejected" THEN "rejected"
                            ELSE IF conv.ok THEN "converted" ELSE "unconverted"]
        /\ IF status = "rejected"
           THEN /\ error' = Some(GenerateError("rejected"))
                /\ UNCHANGED << debugImageUrl, debugPrompt, sceneImage >>
           ELSE /\ debugImageUrl' = Some(DebugImageOf(i))
                /\ debugPrompt' = Some(PromptOf(i))
                /\ IF conv.ok
                   THEN sceneImage' = conv.file /\ UNCHANGED error
                   ELSE error' = Some(GenerateError(conv.message)) /\ UNCHANGED sceneImage
        /\ isLoading' = FALSE
        /\ persistedOrbPosition' = None
        /\ lastCall' = IF i = Len(requests) THEN None ELSE lastCall
        /\ UNCHANGED << selectedDoor, doorImageFile, isTouchDragging, nDrops, nPlaced >>


\* ------------------------------------------------------------------- Init
Init ==
    /\ mounted = TRUE
    /\ selectedDoor = None /\ doorImageFile = None /\ sceneImage = None
    /\ isLoading = FALSE /\ error = None
    /\ persistedOrbPosition = None /\ debugImageUrl = None /\ debugPrompt = None
    /\ isTouchDragging = FALSE
    /\ view = "state1"
    /\ sceneImageUrl = None /\ liveUrls = {} /\ revokedAssets = {}
    /\ requests = << >> /\ lastCall = None /\ doorFetches = {}
    /\ nDrops = 0 /\ nPlaced = 0

NoDrop == UNCHANGED << requests, lastCall, nDrops, nPlaced >>

\* ------------------------------------------------- STATE 1: choose a door
\* onFileSelect of the add-door dialog, which STATE 1 renders.  The try branch:
\* URL.createObjectURL does not throw for a File.  The door's id, Date.now(),
\* is not read anywhere and is 0 here; isAddModalOpen only shows the dialog.
handleDoorImageUpload(file) ==
    LET imageUrl == createObjectURL(liveUrls)
    IN  /\ mounted /\ view = "state1"
        /\ HasFresh(liveUrls)
        /\ error' = None
        /\ doorImageFile' = Some(file)
        /\ selectedDoor' = Some([id |-> 0, imageUrl |-> imageUrl])
        /\ UNCHANGED << sceneImage, isLoading, persistedOrbPosition, debugImageUrl,
                        debugPrompt, isTouchDragging >>
        /\ Render({ imageUrl })
        /\ NoDrop /\ UNCHANGED << mounted, doorFetches >>

\* handleSelectPredefinedDoor up to its first await.  A door is fetched once
\* at a time.
handleSelectPredefinedDoor(door) ==
    /\ mounted /\ view = "state1" /\ door.id \notin doorFetches
    /\ isLoading' = TRUE
    /\ error' = None
    /\ doorFetches' = doorFetches \cup { door.id }
    /\ UNCHANGED << selectedDoor, doorImageFile, sceneImage, persistedOrbPosition,
                    debugImageUrl, debugPrompt, isTouchDragging >>
    /\ Render({})
    /\ NoDrop /\ UNCHANGED mounted

\* handleSelectPredefinedDoor after its awaits: the fetch gave the file, or
\* it threw / was not ok.
handleSelectPredefinedDoorResume(door, ok) ==
    /\ mounted /\ door.id \in doorFetches
    /\ doorFetches' = doorFetches \ { door.id }
    /\ IF ok
       THEN /\ doorImageFile' = Some([src |-> "fetched", n |-> door.id])
            /\ selectedDoor' = Some(door)
            /\ UNCHANGED error
       ELSE /\ error' = Some(LoadDoorError("Failed to load door image"))
            /\ UNCHANGED << doorImageFile, selectedDoor >>
    /\ isLoading' = FALSE
    /\ UNCHANGED << sceneImage, persistedOrbPosition, debugImageUrl, debugPrompt, isTouchDragging >>
    /\ Render({})
    /\ NoDrop /\ UNCHANGED mounted

\* ------------------------------------------- STATE 2 and 3: scene and door
\* onFileSelect={setSceneImage}
setSceneImage(file) ==
    /\ mounted /\ view \in {"state2", "state3"}
    /\ sceneImage' = Some(file)
    /\ UNCHANGED << selectedDoor, doorImageFile, isLoading, error, persistedOrbPosition,
                    debugImageUrl, debugPrompt, isTouchDragging >>
    /\ Render({})
    /\ NoDrop /\ UNCHANGED << mounted, doorFetches >>

handleReset ==
    /\ mounted /\ view = "error"
    /\ selectedDoor' = None /\ doorImageFile' = None /\ sceneImage' = None
    /\ error' = None /\ isLoading' = FALSE /\ persistedOrbPosition' = None
    /\ debugImageUrl' = None /\ debugPrompt' = None
    /\ UNCHANGED isTouchDragging
    /\ Render({})
    /\ NoDrop /\ UNCHANGED << mounted, doorFetches >>

handleChangeDoor ==
    /\ mounted /\ view \in {"state2", "state3"}
    /\ selectedDoor' = None /\ doorImageFile' = None
    /\ persistedOrbPosition' = None
    /\ debugImageUrl' = None /\ debugPrompt' = None
    /\ UNCHANGED << sceneImage, isLoading, error, isTouchDragging >>
    /\ Render({})
    /\ NoDrop /\ UNCHANGED << mounted, doorFetches >>

\* The button is rendered as {sceneImage && !isLoading && ...} in STATE 3.
handleChangeScene ==
    /\ mounted /\ view = "state3" /\ sceneImage # None /\ ~isLoading
    /\ sceneImage' = None
    /\ persistedOrbPosition' = None
    /\ debugImageUrl' = None /\ debugPrompt' = None
    /\ UNCHANGED << selectedDoor, doorImageFile, isLoading, error, isTouchDragging >>
    /\ Render({})
    /\ NoDrop /\ UNCHANGED << mounted, doorFetches >>

\* The uploader calling onProductDrop={handleDoorDrop} for a pointer drop or
\* click; it is a drop zone while isDropZone={!!sceneImage && !isLoading}.
onProductDrop ==
    /\ mounted /\ view = "state3" /\ sceneImage # None /\ ~isLoading
    /\ nDrops < MaxDrops
    /\ HandleDoorDrop([x |-> 4, y |-> 2],
                      [xPercent |-> Num(50), yPercent |-> Num(50)], "pointer")
    /\ UNCHANGED isTouchDragging
    /\ Render({})
    /\ UNCHANGED << mounted, doorFetches >>

\* ------------------------------------------------------------------ touch
\* setTouchGhostPosition re-renders; the ghost position itself is not kept.
handleTouchStart ==
    /\ mounted /\ view = "state3"
    /\ selectedDoor # None
    /\ isTouchDragging' = TRUE
    /\ UNCHANGED << selectedDoor, doorImageFile, sceneImage, isLoading, error,
                    persistedOrbPosition, debugImageUrl, debugPrompt >>
    /\ Render({})
    /\ NoDrop /\ UNCHANGED << mounted, doorFetches >>

handleTouchMove ==
    /\ mounted /\ isTouchDragging
    /\ UNCHANGED << selectedDoor, doorImageFile, sceneImage, isLoading, error,
                    persistedOrbPosition, debugImageUrl, debugPrompt, isTouchDragging >>
    /\ Render({})
    /\ NoDrop /\ UNCHANGED << mounted, doorFetches >>

handleTouchEnd(touch) ==
    LET m == TouchMapping(touch, ContainerRect, NaturalSize(sceneImage[1]))
    IN  /\ mounted /\ isTouchDragging
        /\ IF DropZoneAt(touch) /\ SceneImgRefSet /\ m.call
           THEN /\ nDrops < MaxDrops
                /\ HandleDoorDrop(m.position, m.relativePosition, "touch")
           ELSE /\ UNCHANGED << selectedDoor, doorImageFile, sceneImage, isLoading, error,
                                persistedOrbPosition, debugImageUrl, debugPrompt >>
                /\ NoDrop
        /\ isTouchDragging' = FALSE
        /\ Render({})
        /\ UNCHANGED << mounted, doorFetches >>

\* ---------------------------------------------------- asynchronous steps
generationResume(i, status, dataurl) ==
    /\ mounted /\ i \in 1 .. Len(requests)
    /\ HandleDoorDropResume(i, status, dataurl)
    /\ Render({})
    /\ UNCHANGED << mounted, doorFetches >>

\* The setInterval callback of the loading-message effect: setLoadingMessageIndex
\* re-renders; the index, which only picks the message shown, is not kept.
loadingMessageTick ==
    /\ mounted /\ isLoading /\ sceneImage # None
    /\ UNCHANGED << selectedDoor, doorImageFile, sceneImage, isLoading, error,
                    persistedOrbPosition, debugImageUrl, debugPrompt, isTouchDragging >>
    /\ Render({})
    /\ NoDrop /\ UNCHANGED << mounted, doorFetches >>

\* The component unmounts (the page goes away): both cleanups run, the
\* component's state is discarded and nothing of the component runs afterwards.
Unmount ==
    LET args == SceneCleanup(sceneImageUrl) \cup DoorCleanup(doorImageUrl(selectedDoor))
    IN  /\ mounted
        /\ mounted' = FALSE
        /\ view' = "unmounted"
        /\ liveUrls' = liveUrls \ args
        /\ revokedAssets' = revokedAssets \cup { a \in args : ~StartsWithBlob(a) }
        /\ selectedDoor' = None /\ doorImageFile' = None /\ sceneImage' = None
        /\ isLoading' = FALSE /\ error' = None
        /\ persistedOrbPosition' = None /\ debugImageUrl' = None /\ debugPrompt' = None
        /\ isTouchDragging' = FALSE
        /\ UNCHANGED << sceneImageUrl, requests, lastCall, doorFetches, nDrops, nPlaced >>

\* handleDoorDrop called directly, as any holder of the callback can.
invokeHandleDoorDrop ==
    /\ mounted /\ nDrops < MaxDrops
    /\ HandleDoorDrop([x |-> 4, y |-> 2],
                      [xPercent |-> Num(50), yPercent |-> Num(50)], "direct")
    /\ UNCHANGED isTouchDragging
    /\ Render({})
    /\ UNCHANGED << mounted, doorFetches >>

Next ==
    \/ \E file \in DoorUploadFiles : handleDoorImageUpload(file)
    \/ \E door \in predefinedDoors : handleSelectPredefinedDoor(door)
    \/ \E door \in predefinedDoors, ok \in BOOLEAN : handleSelectPredefinedDoorResume(door, ok)
    \/ \E file \in SceneUploadFiles : setSceneImage(file)
    \/ handleReset
    \/ handleChangeDoor
    \/ handleChangeScene
    \/ onProductDrop
    \/ handleTouchStart
    \/ handleTouchMove
    \/ \E touch \in TouchPoints : handleTouchEnd(touch)
    \/ \E i \in 1 .. MaxDrops : generationResume(i, "rejected", NoDataUrl)
    \/ \E i \in 1 .. MaxDrops, d \in DataUrls : generationResume(i, "resolved", d)
    \/ loadingMessageTick
    \/ Unmount

Spec == Init /\ [][Next]_vars

\* The same program with the callback also invoked directly.
SpecCallback == Init /\ [][Next \/ invokeHandleDoorDrop]_vars


\* ================================================================= claims
Pending(i) == i \in 1 .. Len(requests) /\ requests[i] = "pending"
\* Call i completes in this step with the given outcome.
Completes(i, outcome) == Pending(i) /\ requests'[i] = outcome
GeneratedFile(i) == [src |-> "generated", n |-> i]
IsGenerateError(e) == e # None /\ e[1].prefix = "Failed to generate the image."
InRange(p) == FLeq(Num(0), p) /\ FLeq(p, Num(100))

\* C1 (as stated): every accepted handleDoorDrop issues exactly one
\* generateCompositeImage request, and whenever that request resolves the
\* scene image becomes the generated image and the returned debug image and
\* prompt are stored.
C1_AsStated ==
    [][ /\ Len(requests') - Len(requests) = nPlaced' - nPlaced
        /\ nPlaced' - nPlaced \in {0, 1}
        /\ \A i \in 1 .. MaxDrops :
             (Completes(i, "converted") \/ Completes(i, "unconverted"))
             => /\ sceneImage' = Some(GeneratedFile(i))
                /\ debugImageUrl' = Some(DebugImageOf(i))
                /\ debugPrompt' = Some(PromptOf(i)) ]_vars

\* C1 (amended): every accepted handleDoorDrop issues exactly one
\* generateCompositeImage request; whenever that request resolves the returned
\* debug image and prompt are stored, and the scene image becomes the
\* generated image when the returned final image converts to a file.
C1_OneRequestThenSwap ==
    [][ /\ Len(requests') - Len(requests) = nPlaced' - nPlaced
        /\ nPlaced' - nPlaced \in {0, 1}
        /\ \A i \in 1 .. MaxDrops :
             /\ (Completes(i, "converted") \/ Completes(i, "unconverted"))
                => /\ debugImageUrl' = Some(DebugImageOf(i))
                   /\ debugPrompt' = Some(PromptOf(i))
             /\ Completes(i, "converted") => sceneImage' = Some(GeneratedFile(i)) ]_vars

\* A placement was accepted, its one request resolved, and the generated
\* image is the scene.
C1_Witness ==
    \E i \in 1 .. Len(requests) :
        /\ requests[i] = "converted"
        /\ nPlaced = Len(requests)
        /\ sceneImage = Some(GeneratedFile(i))
        /\ debugImageUrl = Some(DebugImageOf(i))

C3_TouchPercentInRange ==
    (lastCall # None /\ lastCall[1].via = "touch")
    => /\ InRange(lastCall[1].relativePosition.xPercent)
       /\ InRange(lastCall[1].relativePosition.yPercent)

\* C4: the rendered view follows the precedence error, 'Loading door...',
\* STATE 1, STATE 2, and STATE 3 is rendered only with no error, a selected
\* door and a scene image.
C4_ViewPrecedence ==
    mounted =>
      /\ error # None => view = "error"
      /\ (error = None /\ isLoading /\ sceneImage = None) => view = "loadingDoor"
      /\ (error = None /\ ~(isLoading /\ sceneImage = None) /\ selectedDoor = None)
         => view = "state1"
      /\ (error = None /\ ~(isLoading /\ sceneImage = None) /\ selectedDoor # None
          /\ sceneImage = None) => view = "state2"
      /\ view = "state3" => (error = None /\ selectedDoor # None /\ sceneImage # None)
      /\ view \in {"error", "loadingDoor", "state1", "state2", "state3"}

\* STATE 3 is rendered during a generation.
C4_Witness == mounted /\ view = "state3" /\ isLoading

\* C5: a handleDoorDrop invoked while doorImageFile, sceneImage or
\* selectedDoor is null sets the 'unexpected error' message, issues no
\* request and leaves isLoading, persistedOrbPosition, sceneImage and the
\* debug fields as they were.
C5_RejectedDrop ==
    [][ (nDrops' = nDrops + 1
         /\ (doorImageFile = None \/ sceneImage = None \/ selectedDoor = None))
        => /\ error' = Some(UnexpectedError)
           /\ requests' = requests
           /\ UNCHANGED << isLoading, persistedOrbPosition, sceneImage, debugImageUrl,
                           debugPrompt >> ]_vars

\* handleDoorDrop was invoked and refused.
C5_Witness == nDrops > nPlaced /\ error = Some(UnexpectedError)

\* C6 (as stated): when a generation fails, by rejection or because the
\* final image does not convert, error becomes a 'Failed to generate the
\* image.' message and sceneImage, debugImageUrl and debugPrompt are left as
\* they were.
C6_AsStated ==
    [][ \A i \in 1 .. MaxDrops :
          (Completes(i, "rejected") \/ Completes(i, "unconverted"))
          => /\ IsGenerateError(error')
             /\ UNCHANGED << sceneImage, debugImageUrl, debugPrompt >> ]_vars

\* C6 (amended): when the request rejects, error becomes a 'Failed to generate
\* the image.' message and sceneImage, debugImageUrl and debugPrompt are left
\* as they were; when the final image does not convert, error becomes such a
\* message and sceneImage is left as it was, while debugImageUrl and
\* debugPrompt take the returned values.
C6_FailedGeneration ==
    [][ \A i \in 1 .. MaxDrops :
          /\ Completes(i, "rejected")
             => /\ IsGenerateError(error')
                /\ UNCHANGED << sceneImage, debugImageUrl, debugPrompt >>
          /\ Completes(i, "unconverted")
             => /\ IsGenerateError(error')
                /\ UNCHANGED sceneImage
                /\ debugImageUrl' = Some(DebugImageOf(i))
                /\ debugPrompt' = Some(PromptOf(i)) ]_vars

\* A generation failed in the conversion of the returned image.
C6_Witness ==
    \E i \in 1 .. Len(requests) :
        /\ requests[i] = "unconverted"
        /\ IsGenerateError(error)
        /\ debugImageUrl = Some(DebugImageOf(i))
        /\ sceneImage # Some(GeneratedFile(i))

\* C7: while the latest accepted drop's request is pending, isLoading is true
\* and persistedOrbPosition is the drop position.
C7_LoadingWhilePending ==
    Pending(Len(requests))
    => /\ isLoading
       /\ persistedOrbPosition = Some(lastCall[1].position)

====
